---- MODULE Spec2Model ----
(***************************************************************************)
(* Model of libindy-crypto/src/cl/verifier.rs: the ProofVerifier that      *)
(* registers sub proof requests and verifies an anoncreds Proof.           *)
(*                                                                         *)
(* Big-number arithmetic is kept symbolic: a recomputed commitment is a    *)
(* tuple naming the routine that produced it and the inputs it read, so    *)
(* that the number, the origin and the order of the hashed values can be   *)
(* compared.  Key ids are naturals; their numeric order stands for the     *)
(* lexicographic order of the key strings in the BTreeMaps.                *)
(***************************************************************************)
EXTENDS Integers, Sequences, FiniteSets, TLC

(* credentials: ProofVerifier.credentials, key id -> VerifiableCredential.  *)
(* reg_order:   history, the key ids in the order they were first stored.  *)
(* consumed:    verify took the verifier by value; no call can follow.     *)
(* call:        the last call: its arguments, its result and, for verify,  *)
(*              the locals it had built when it returned.                  *)
VARIABLES credentials, reg_order, consumed, call

vars == <<credentials, reg_order, consumed, call>>

(***************************************************************************)
(* Bounds and program constants                                            *)
(***************************************************************************)
MaxNonce == 2

ITERATION == 4

(* Two key ids: enough for a missing entry, an unregistered entry and two  *)
(* blocks registered in either order.                                      *)
KeyIds == {1, 2}

(* Nonces 1..MaxNonce, and -1, whose serialization is that of 1. *)
Nonces == ((0 - 1)..MaxNonce) \ {0}

(***************************************************************************)
(* Results: Ok(v), Err(kind, message), and a panic (abnormal termination). *)
(***************************************************************************)
Ok(v) == [tag |-> "Ok", val |-> v, err |-> "", msg |-> ""]

Err(e, m) == [tag |-> "Err", val |-> <<>>, err |-> e, msg |-> m]

Panic(m) == [tag |-> "Panic", val |-> <<>>, err |-> "panic", msg |-> m]

(***************************************************************************)
(* Value objects                                                           *)
(***************************************************************************)
Predicate(a, v) == [attr_name |-> a, p_type |-> "GE", value |-> v]

TKeys == {ToString(i) : i \in 0..(ITERATION - 1)} \cup {"DELTA"}

SetToSortedSeq(S) ==
  LET RECURSIVE Build(_)
      Build(T) == IF T = {} THEN <<>>
                  ELSE LET m == CHOOSE x \in T : \A y \in T : x <= y
                       IN <<m>> \o Build(T \ {m})
  IN Build(S)

Range(s) == {s[i] : i \in 1..Len(s)}

(***************************************************************************)
(* Symbolic big numbers.  A commitment records the routine that recomputed *)
(* it, the modulus of the key it was computed under, the transcript it was *)
(* computed from, its slot in the routine's output and the public values   *)
(* folded into it.  The responses of a transcript are taken as fitted to   *)
(* the challenge c_hash the proof carries, so c_hash is not part of it.    *)
(***************************************************************************)
Commitment(kind, n, transcript, slot, public) ==
  [kind |-> kind, n |-> n, transcript |-> transcript, slot |-> slot, public |-> public]

(* A byte string that is handed to the hash as it was received. *)
Bytes(kind, bytes) == Commitment(kind, 0, 0, 0, bytes)

(* Nonce::to_bytes: the big-endian magnitude of the number, sign dropped. *)
RECURSIVE Base256(_)
Base256(m) == IF m < 256 THEN <<m>> ELSE Base256(m \div 256) \o <<m % 256>>

to_bytes(nonce) == Base256(IF nonce < 0 THEN 0 - nonce ELSE nonce)

(* utils::get_hash_as_int, taken as collision free on the value sequence. *)
get_hash_as_int(values) == [sha256 |-> values]

(* AuthzProof::verify: one commitment computed from the authz transcript. *)
authz_proof_verify(authz_proof, c_hash, accumulators) ==
  Ok(Commitment("authz", 0, authz_proof, 0, <<accumulators>>))

(***************************************************************************)
(* Faulty variants of the operators below, one per plausible slip in the   *)
(* code.  Each property is checked to fail when the operator it depends on *)
(* is replaced by its faulty variant.                                      *)
(***************************************************************************)
(* Slip: the predicates' attribute names are not checked against the schema. *)
check_add_sub_proof_request_params_consistency_RevealedOnly(sub_proof_request, cred_schema) ==
  IF sub_proof_request.revealed_attrs \ cred_schema.attrs # {}
  THEN Err("InvalidStructure", "Claim doesn't contain requested attribute")
  ELSE Ok(<<>>)

(***************************************************************************)
(* ProofVerifier::_check_add_sub_proof_request_params_consistency          *)
(***************************************************************************)
check_add_sub_proof_request_params_consistency(sub_proof_request, cred_schema) ==
  IF sub_proof_request.revealed_attrs \ cred_schema.attrs # {}
  THEN Err("InvalidStructure", "Claim doesn't contain requested attribute")
  ELSE LET predicates_attrs ==
             {predicate.attr_name : predicate \in sub_proof_request.predicates}
       IN IF predicates_attrs \ cred_schema.attrs # {}
          THEN Err("InvalidStructure",
                   "Claim doesn't contain attribute requested in predicate")
          ELSE Ok(<<>>)

(* Slip: an entry already stored under key is kept (entry().or_insert()). *)
MapInsert_KeepExisting(map, key, value) ==
  [k \in (DOMAIN map) \cup {key} |-> IF k \in DOMAIN map THEN map[k] ELSE value]

(* BTreeMap::insert: the entry under key is replaced, the others are kept. *)
MapInsert(map, key, value) ==
  [k \in (DOMAIN map) \cup {key} |-> IF k = key THEN value ELSE map[k]]

VerifiableCredential(sub_proof_request, credential_schema, non_credential_schema_elements, credential_pub_key, rev_key_pub, rev_reg) ==
  [pub_key |-> credential_pub_key,
   sub_proof_request |-> sub_proof_request,
   credential_schema |-> credential_schema,
   non_credential_schema_elements |-> non_credential_schema_elements,
   rev_key_pub |-> rev_key_pub,
   rev_reg |-> rev_reg]

(***************************************************************************)
(* ProofVerifier::_check_verify_params_consistency                         *)
(***************************************************************************)
(* Slip: the proof may reveal more attributes than were requested. *)
CheckCredential_RevealedSuperset(credential, proof_for_credential) ==
  LET proof_revealed_attrs ==
        DOMAIN proof_for_credential.primary_proof.eq_proof.revealed_attrs
      proof_predicates ==
        {ge_proof.predicate :
           ge_proof \in Range(proof_for_credential.primary_proof.ge_proofs)}
  IN IF ~(credential.sub_proof_request.revealed_attrs \subseteq proof_revealed_attrs)
     THEN Err("AnoncredsProofRejected",
              "Proof revealed attributes not correspond to requested attributes")
     ELSE IF proof_predicates # credential.sub_proof_request.predicates
          THEN Err("AnoncredsProofRejected",
                   "Proof predicates not correspond to requested predicates")
          ELSE Ok(<<>>)

(* Slip: the predicates of the proof are not compared with the request. *)
CheckCredential_NoPredicates(credential, proof_for_credential) ==
  LET proof_revealed_attrs ==
        DOMAIN proof_for_credential.primary_proof.eq_proof.revealed_attrs
  IN IF proof_revealed_attrs # credential.sub_proof_request.revealed_attrs
     THEN Err("AnoncredsProofRejected",
              "Proof revealed attributes not correspond to requested attributes")
     ELSE Ok(<<>>)

CheckCredential(credential, proof_for_credential) ==
  LET proof_revealed_attrs ==
        DOMAIN proof_for_credential.primary_proof.eq_proof.revealed_attrs
      proof_predicates ==
        {ge_proof.predicate :
           ge_proof \in Range(proof_for_credential.primary_proof.ge_proofs)}
  IN IF proof_revealed_attrs # credential.sub_proof_request.revealed_attrs
     THEN Err("AnoncredsProofRejected",
              "Proof revealed attributes not correspond to requested attributes")
     ELSE IF proof_predicates # credential.sub_proof_request.predicates
          THEN Err("AnoncredsProofRejected",
                   "Proof predicates not correspond to requested predicates")
          ELSE Ok(<<>>)

(* Slip: a registered key without a proof entry is skipped. *)
RECURSIVE CheckCredentials_SkipMissing(_, _, _)
CheckCredentials_SkipMissing(creds, proof, keys) ==
  IF keys = <<>> THEN Ok(<<>>)
  ELSE LET key_id == Head(keys)
       IN IF key_id \notin DOMAIN proof.proofs
          THEN CheckCredentials_SkipMissing(creds, proof, Tail(keys))
          ELSE LET res == CheckCredential(creds[key_id], proof.proofs[key_id])
               IN IF res.tag # "Ok" THEN res
                  ELSE CheckCredentials_SkipMissing(creds, proof, Tail(keys))

RECURSIVE CheckCredentials(_, _, _)
CheckCredentials(creds, proof, keys) ==
  IF keys = <<>> THEN Ok(<<>>)
  ELSE LET key_id == Head(keys)
       IN IF key_id \notin DOMAIN proof.proofs
          THEN Err("AnoncredsProofRejected", "Proof not found")
          ELSE LET res == CheckCredential(creds[key_id], proof.proofs[key_id])
               IN IF res.tag # "Ok" THEN res
                  ELSE CheckCredentials(creds, proof, Tail(keys))

check_verify_params_consistency(creds, proof) ==
  CheckCredentials(creds, proof, SetToSortedSeq(DOMAIN creds))

(***************************************************************************)
(* ProofVerifier::_verify_equality                                         *)
(***************************************************************************)
verify_equality(p_pub_key, proof, c_hash, cred_schema, non_cred_schema_elements, sub_proof_request) ==
  LET unrevealed_attrs ==
        (cred_schema.attrs \cup non_cred_schema_elements.attrs)
          \ sub_proof_request.revealed_attrs
  IN IF \E attr \in DOMAIN proof.revealed_attrs : attr \notin p_pub_key.r
     THEN Err("AnoncredsProofRejected", "Value by key not found in pk.r")
     ELSE Ok(<<Commitment("t_eq", p_pub_key.n, proof.a_prime, 0,
                          <<unrevealed_attrs, proof.revealed_attrs>>)>>)

(***************************************************************************)
(* ProofVerifier::_verify_ge_predicate                                     *)
(***************************************************************************)
(* helpers::calc_tge: the base list of ITERATION + 2 values computed from   *)
(* the transcript; slot i is the value later stored at tau_list[i].        *)
calc_tge(p_pub_key, u, r, mj, alpha, t) ==
  Ok([i \in 1..(ITERATION + 2) |->
        Commitment("tau_ge", p_pub_key.n, u, i - 1, <<>>)])

(* Slip: the threshold is not folded into slot ITERATION. *)
verify_ge_predicate_NoThreshold(p_pub_key, proof, c_hash) ==
  LET tau_list == calc_tge(p_pub_key, proof.u, proof.r, proof.mj, proof.alpha, proof.t)
  IN IF tau_list.tag # "Ok" THEN tau_list
     ELSE IF TKeys \subseteq proof.t THEN tau_list
     ELSE Err("AnoncredsProofRejected", "Value by key not found in proof.t")

(* Slip: a missing t["DELTA"] is replaced by a default instead of rejected. *)
verify_ge_predicate_DefaultDelta(p_pub_key, proof, c_hash) ==
  LET tau_list == calc_tge(p_pub_key, proof.u, proof.r, proof.mj, proof.alpha, proof.t)
  IN IF tau_list.tag # "Ok" THEN tau_list
     ELSE IF \E i \in 0..(ITERATION - 1) : ToString(i) \notin proof.t
     THEN Err("AnoncredsProofRejected", "Value by key not found in proof.t")
     ELSE Ok([i \in 1..Len(tau_list.val) |->
                IF i - 1 = ITERATION
                THEN [tau_list.val[i] EXCEPT !.public = <<proof.predicate.value>>]
                ELSE tau_list.val[i]])

(* The threshold folded into slot ITERATION is proof.predicate.value, the  *)
(* predicate the GE transcript itself carries (verifier.rs:518).           *)
verify_ge_predicate(p_pub_key, proof, c_hash) ==
  LET tau_list == calc_tge(p_pub_key, proof.u, proof.r, proof.mj, proof.alpha, proof.t)
  IN IF tau_list.tag # "Ok" THEN tau_list
     ELSE IF \E i \in 0..(ITERATION - 1) : ToString(i) \notin proof.t
     THEN Err("AnoncredsProofRejected", "Value by key not found in proof.t")
     ELSE IF "DELTA" \notin proof.t
     THEN Err("AnoncredsProofRejected", "Value by key 'DELTA' not found in proof.t")
     ELSE Ok([i \in 1..Len(tau_list.val) |->
                IF i - 1 = ITERATION
                THEN [tau_list.val[i] EXCEPT !.public = <<proof.predicate.value>>]
                ELSE tau_list.val[i]])

(***************************************************************************)
(* ProofVerifier::_verify_primary_proof                                    *)
(***************************************************************************)
(* Slip: each predicate's block is put in front of the list built so far. *)
RECURSIVE VerifyGeProofs_Prepend(_, _, _, _)
VerifyGeProofs_Prepend(p_pub_key, ge_proofs, c_hash, t_hat) ==
  IF ge_proofs = <<>> THEN Ok(t_hat)
  ELSE LET res == verify_ge_predicate(p_pub_key, Head(ge_proofs), c_hash)
       IN IF res.tag # "Ok" THEN res
          ELSE VerifyGeProofs_Prepend(p_pub_key, Tail(ge_proofs), c_hash,
                                      <<Head(t_hat)>> \o res.val \o Tail(t_hat))

RECURSIVE VerifyGeProofs(_, _, _, _)
VerifyGeProofs(p_pub_key, ge_proofs, c_hash, t_hat) ==
  IF ge_proofs = <<>> THEN Ok(t_hat)
  ELSE LET res == verify_ge_predicate(p_pub_key, Head(ge_proofs), c_hash)
       IN IF res.tag # "Ok" THEN res
          ELSE VerifyGeProofs(p_pub_key, Tail(ge_proofs), c_hash, t_hat \o res.val)

verify_primary_proof(p_pub_key, c_hash, primary_proof, cred_schema, non_cred_schema_elements, sub_proof_request) ==
  LET t_hat == verify_equality(p_pub_key, primary_proof.eq_proof, c_hash,
                               cred_schema, non_cred_schema_elements,
                               sub_proof_request)
  IN IF t_hat.tag # "Ok" THEN t_hat
     ELSE VerifyGeProofs(p_pub_key, primary_proof.ge_proofs, c_hash, t_hat.val)

(***************************************************************************)
(* ProofVerifier::_verify_non_revocation_proof: the eight values t1..t8.   *)
(***************************************************************************)
verify_non_revocation_proof(r_pub_key, rev_reg, rev_key_pub, c_hash, proof) ==
  Ok([i \in 1..8 |->
        Commitment("t_nr", 0, proof, i, <<r_pub_key, rev_reg, rev_key_pub>>)])

(***************************************************************************)
(* ProofVerifier::verify                                                   *)
(* An Option is a set with at most one element: {} is None, {x} Some(x).   *)
(***************************************************************************)
Unwrap(option) == CHOOSE x \in option : TRUE

(* `for (issuer_key_id, proof_item) in &proof.proofs`: ascending key order. *)
ProofsIter(proof) == SetToSortedSeq(DOMAIN proof.proofs)

(* Slip: a transcript or a registry without its counterpart is rejected. *)
NonRevocationStep_Strict(credential, proof_item, c_hash) ==
  IF /\ proof_item.non_revoc_proof # {}
     /\ credential.pub_key.r_key # {}
     /\ credential.rev_reg # {}
     /\ credential.rev_key_pub # {}
  THEN verify_non_revocation_proof(Unwrap(credential.pub_key.r_key),
                                   Unwrap(credential.rev_reg),
                                   Unwrap(credential.rev_key_pub),
                                   c_hash,
                                   Unwrap(proof_item.non_revoc_proof))
  ELSE IF proof_item.non_revoc_proof # {} \/ credential.rev_reg # {}
       THEN Err("AnoncredsProofRejected", "Non-revocation proof not expected")
       ELSE Ok(<<>>)

(* The non-revocation commitments one loop iteration adds to tau_list. *)
NonRevocationStep(credential, proof_item, c_hash) ==
  IF /\ proof_item.non_revoc_proof # {}
     /\ credential.pub_key.r_key # {}
     /\ credential.rev_reg # {}
     /\ credential.rev_key_pub # {}
  THEN verify_non_revocation_proof(Unwrap(credential.pub_key.r_key),
                                   Unwrap(credential.rev_reg),
                                   Unwrap(credential.rev_key_pub),
                                   c_hash,
                                   Unwrap(proof_item.non_revoc_proof))
  ELSE Ok(<<>>)

(* Slip: the primary commitments are appended before the non-revocation ones. *)
LoopBody_PrimaryFirst(credential, proof_item, c_hash) ==
  LET nr == NonRevocationStep(credential, proof_item, c_hash)
      pp == verify_primary_proof(credential.pub_key.p_key, c_hash,
                                 proof_item.primary_proof,
                                 credential.credential_schema,
                                 credential.non_credential_schema_elements,
                                 credential.sub_proof_request)
  IN IF nr.tag # "Ok" THEN nr
     ELSE IF pp.tag # "Ok" THEN pp
          ELSE Ok(pp.val \o nr.val)

(* One iteration of the loop: the commitments it appends, in order. *)
LoopBody(credential, proof_item, c_hash) ==
  LET nr == NonRevocationStep(credential, proof_item, c_hash)
      pp == verify_primary_proof(credential.pub_key.p_key, c_hash,
                                 proof_item.primary_proof,
                                 credential.credential_schema,
                                 credential.non_credential_schema_elements,
                                 credential.sub_proof_request)
  IN IF nr.tag # "Ok" THEN nr
     ELSE IF pp.tag # "Ok" THEN pp
          ELSE Ok(nr.val \o pp.val)

LoopState(tag, tau_list, include_authz_proof, result) ==
  [tag |-> tag, tau_list |-> tau_list,
   include_authz_proof |-> include_authz_proof, result |-> result]

(* Slip: include_authz_proof is assigned (=) instead of accumulated (|=). *)
RECURSIVE VerifyLoop_AssignInclude(_, _, _, _, _)
VerifyLoop_AssignInclude(creds, proof, keys, tau_list, include_authz_proof) ==
  IF keys = <<>>
  THEN LoopState("Ok", tau_list, include_authz_proof, Ok(<<>>))
  ELSE LET issuer_key_id == Head(keys)
       IN IF issuer_key_id \notin DOMAIN creds
          THEN LoopState("Panic", tau_list, include_authz_proof,
                         Panic("BTreeMap index: key not found"))
          ELSE LET credential == creds[issuer_key_id]
                   include == credential.sub_proof_request.include_authz_proof
                   body == LoopBody(credential, proof.proofs[issuer_key_id],
                                    proof.aggregated_proof.c_hash)
               IN IF body.tag # "Ok"
                  THEN LoopState(body.tag, tau_list, include, body)
                  ELSE VerifyLoop_AssignInclude(creds, proof, Tail(keys),
                                                tau_list \o body.val, include)

RECURSIVE VerifyLoop(_, _, _, _, _)
VerifyLoop(creds, proof, keys, tau_list, include_authz_proof) ==
  IF keys = <<>>
  THEN LoopState("Ok", tau_list, include_authz_proof, Ok(<<>>))
  ELSE LET issuer_key_id == Head(keys)
       IN IF issuer_key_id \notin DOMAIN creds
          THEN LoopState("Panic", tau_list, include_authz_proof,
                         Panic("BTreeMap index: key not found"))
          ELSE LET credential == creds[issuer_key_id]
                   include == include_authz_proof
                                \/ credential.sub_proof_request.include_authz_proof
                   body == LoopBody(credential, proof.proofs[issuer_key_id],
                                    proof.aggregated_proof.c_hash)
               IN IF body.tag # "Ok"
                  THEN LoopState(body.tag, tau_list, include, body)
                  ELSE VerifyLoop(creds, proof, Tail(keys),
                                  tau_list \o body.val, include)

(* Slip: c_list is pushed before the recomputed commitments. *)
HashInput_CListFirst(tau_list, c_list, authz_values, nonce) ==
  c_list \o tau_list \o authz_values \o <<Bytes("nonce", to_bytes(nonce))>>

(* Slip: the nonce is not pushed. *)
HashInput_NoNonce(tau_list, c_list, authz_values, nonce) ==
  tau_list \o c_list \o authz_values

(* The values handed to get_hash_as_int, in the order they are pushed. *)
HashInput(tau_list, c_list, authz_values, nonce) ==
  tau_list \o c_list \o authz_values \o <<Bytes("nonce", to_bytes(nonce))>>

Frame(pc, result, tau_list, include_authz_proof, values, c_hver) ==
  [pc |-> pc, result |-> result, tau_list |-> tau_list,
   include_authz_proof |-> include_authz_proof, values |-> values, c_hver |-> c_hver]

(* verify as a function of its inputs: where it returned (pc), what it     *)
(* returned (result) and the locals it had built by then.                  *)
VerifyRun(creds, proof, nonce, accumulators) ==
  LET chk == check_verify_params_consistency(creds, proof)
  IN IF chk.tag # "Ok"
     THEN Frame("consistency", chk, <<>>, FALSE, <<>>, {})
     ELSE
     LET loop == VerifyLoop(creds, proof, ProofsIter(proof), <<>>, FALSE)
     IN IF loop.tag # "Ok"
        THEN Frame("recompute", loop.result, loop.tau_list,
                   loop.include_authz_proof, <<>>, {})
        ELSE IF loop.include_authz_proof /\ proof.authz_proof = {}
        THEN Frame("authz_missing", Ok(FALSE), loop.tau_list, TRUE, <<>>, {})
        ELSE IF proof.authz_proof # {} /\ accumulators = {}
        THEN Frame("authz_verify", Panic("unwrap on None"), loop.tau_list,
                   loop.include_authz_proof, <<>>, {})
        ELSE
        LET t_list == IF proof.authz_proof = {} THEN Ok(<<>>)
                      ELSE authz_proof_verify(Unwrap(proof.authz_proof),
                                              proof.aggregated_proof.c_hash,
                                              Unwrap(accumulators))
        IN IF t_list.tag # "Ok"
           THEN Frame("authz_verify", t_list, loop.tau_list,
                      loop.include_authz_proof, <<>>, {})
           ELSE
           LET values == HashInput(loop.tau_list, proof.aggregated_proof.c_list,
                                   IF proof.authz_proof = {} THEN <<>>
                                   ELSE <<t_list.val>>,
                                   nonce)
               c_hver == get_hash_as_int(values)
               valid == c_hver = proof.aggregated_proof.c_hash
           IN Frame("challenge", Ok(valid), loop.tau_list,
                    loop.include_authz_proof, values, {c_hver})

(***************************************************************************)
(* Inputs of the calls                                                     *)
(***************************************************************************)
CredentialSchemas == {[attrs |-> {"name", "age"}]}

NonCredentialSchemaElementsSet == {[attrs |-> {"master_secret"}]}

Revocable == <<{"r_key"}, {"rev_key_pub"}, {"rev_reg"}>>

NotRevocable == <<{}, {}, {}>>

SubProofRequest(revealed_attrs, predicates, include_authz_proof) ==
  [revealed_attrs |-> revealed_attrs, predicates |-> predicates,
   include_authz_proof |-> include_authz_proof]

(* Requests that fit the schema, and two that name the attribute "sex",    *)
(* which the schema lacks: once revealed, once in a predicate.             *)
SubProofRequests ==
  {SubProofRequest({"name"}, ps, b) :
     ps \in {{}, {Predicate("age", 18)}}, b \in BOOLEAN}

BadSubProofRequests ==
  {SubProofRequest({"name", "sex"}, {}, FALSE),
   SubProofRequest({"name"}, {Predicate("sex", 18)}, FALSE)}

(* rs: <<credential_pub_key.r_key, rev_key_pub, rev_reg>> *)
AddArg(spr, cs, ncs, rs) ==
  [sub_proof_request |-> spr,
   credential_schema |-> cs,
   non_credential_schema_elements |-> ncs,
   credential_pub_key |-> [p_key |-> [n |-> 1, r |-> {"name", "age"}],
                           r_key |-> rs[1]],
   rev_key_pub |-> rs[2],
   rev_reg |-> rs[3]]

AddArgs ==
  {AddArg(spr, cs, ncs, rs) :
     spr \in SubProofRequests, cs \in CredentialSchemas,
     ncs \in NonCredentialSchemaElementsSet, rs \in {Revocable, NotRevocable}}
  \cup
  {AddArg(spr, cs, ncs, NotRevocable) :
     spr \in BadSubProofRequests, cs \in CredentialSchemas,
     ncs \in NonCredentialSchemaElementsSet}

EqProofs ==
  {[a_prime |-> 1, revealed_attrs |-> [a \in names |-> 1]] :
     names \in {{"name"}, {"name", "age"}}}

GeProof(value, t) == [u |-> value, r |-> value, mj |-> value, alpha |-> value, t |-> t, predicate |-> Predicate("age", value)]

ProofItem(eq, ges, nr) ==
  [primary_proof |-> [eq_proof |-> eq, ge_proofs |-> ges], non_revoc_proof |-> nr]

(* Well-formed transcripts, and one whose GE transcript lacks t["DELTA"]. *)
ProofItems ==
  {ProofItem(eq, ges, nr) :
     eq \in EqProofs, ges \in {<<>>, <<GeProof(18, TKeys)>>},
     nr \in {{}, {"non_revoc_proof"}}}
  \cup
  {ProofItem([a_prime |-> 1, revealed_attrs |-> [a \in {"name"} |-> 1]],
             <<GeProof(18, TKeys \ {"DELTA"})>>, {})}

ProofsMaps == UNION {[D -> ProofItems] : D \in SUBSET KeyIds}

(* The commitments the prover hashed, as it sent them. *)
CLists == {<<Bytes("c_list", <<1>>), Bytes("c_list", <<2>>)>>}

AuthzProofs == {{}, {"authz_proof"}}

AccumulatorsArgs == {{}, {"accumulators"}}

MakeProof(proofs, c_hash, c_list, authz_proof) ==
  [proofs |-> proofs,
   aggregated_proof |-> [c_hash |-> c_hash, c_list |-> c_list],
   authz_proof |-> authz_proof]

(* The challenges a proof may carry: the one an honest prover computes for *)
(* some nonce, or a value that is the hash of no sequence verify builds.   *)
BadHash == get_hash_as_int(<<>>)

CHashes(creds, proofs, c_list, authz_proof, accumulators) ==
  LET probe(n) == VerifyRun(creds, MakeProof(proofs, BadHash, c_list, authz_proof),
                            n, accumulators)
  IN {BadHash} \cup
     {get_hash_as_int(probe(n).values) : n \in {m \in Nonces : probe(m).pc = "challenge"}}

(***************************************************************************)
(* State machine                                                           *)
(***************************************************************************)
Init ==
  /\ credentials = <<>>
  /\ reg_order = <<>>
  /\ consumed = FALSE
  /\ call = [op |-> "new_proof_verifier"]

(* Verifier::new_proof_verifier *)
new_proof_verifier ==
  /\ credentials' = <<>>
  /\ reg_order' = <<>>
  /\ consumed' = FALSE
  /\ call' = [op |-> "new_proof_verifier"]

(* The body of ProofVerifier::add_sub_proof_request for given arguments. *)
AddCall(key_id, args) ==
  LET chk == check_add_sub_proof_request_params_consistency(
               args.sub_proof_request, args.credential_schema)
      stored == VerifiableCredential(args.sub_proof_request,
                                     args.credential_schema,
                                     args.non_credential_schema_elements,
                                     args.credential_pub_key,
                                     args.rev_key_pub, args.rev_reg)
  IN /\ credentials' = IF chk.tag = "Ok"
                       THEN MapInsert(credentials, key_id, stored)
                       ELSE credentials
     /\ reg_order' = IF chk.tag = "Ok" /\ key_id \notin Range(reg_order)
                     THEN Append(reg_order, key_id)
                     ELSE reg_order
     /\ call' = [op |-> "add_sub_proof_request", key_id |-> key_id,
                 args |-> args, result |-> chk]

(* ProofVerifier::add_sub_proof_request *)
add_sub_proof_request ==
  /\ ~consumed
  /\ \E key_id \in KeyIds, args \in AddArgs : AddCall(key_id, args)
  /\ UNCHANGED consumed

(* The body of ProofVerifier::verify for given arguments. *)
VerifyCall(proof, nonce, accumulators) ==
  call' = [op |-> "verify", proof |-> proof, nonce |-> nonce,
           accumulators |-> accumulators,
           run |-> VerifyRun(credentials, proof, nonce, accumulators)]

(* ProofVerifier::verify: consumes the verifier. *)
verify ==
  /\ ~consumed
  /\ \E proofs \in ProofsMaps, c_list \in CLists, authz_proof \in AuthzProofs,
        nonce \in Nonces, accumulators \in AccumulatorsArgs :
       \E c_hash \in CHashes(credentials, proofs, c_list, authz_proof, accumulators) :
         VerifyCall(MakeProof(proofs, c_hash, c_list, authz_proof), nonce, accumulators)
  /\ consumed' = TRUE
  /\ UNCHANGED <<credentials, reg_order>>

Next == new_proof_verifier \/ add_sub_proof_request \/ verify

Spec == Init /\ [][Next]_vars

(***************************************************************************)
(* One credential in detail: a verifier with the single key id 1, every    *)
(* combination of the revocation arguments, up to two predicates, and      *)
(* proofs whose ge_proofs list repeats, reorders or truncates transcripts. *)
(***************************************************************************)
MaxGeProofs == 2

RevocationSetups ==
  {<<r_key, rev_key_pub, rev_reg>> :
     r_key \in {{}, {"r_key"}}, rev_key_pub \in {{}, {"rev_key_pub"}},
     rev_reg \in {{}, {"rev_reg"}}}

SubProofAddArgs ==
  {AddArg(SubProofRequest({"name"}, ps, FALSE), cs, ncs, rs) :
     ps \in {{}, {Predicate("age", 18)}, {Predicate("age", 18), Predicate("age", 21)}},
     cs \in CredentialSchemas, ncs \in NonCredentialSchemaElementsSet,
     rs \in RevocationSetups}

GeProofs ==
  {GeProof(18, TKeys), GeProof(21, TKeys),
   GeProof(18, TKeys \ {"DELTA"}), GeProof(18, TKeys \ {"0"})}

GeProofLists == UNION {[1..n -> GeProofs] : n \in 0..MaxGeProofs}

SubProofItems ==
  {ProofItem([a_prime |-> 1, revealed_attrs |-> [a \in {"name"} |-> 1]], ges, nr) :
     ges \in GeProofLists, nr \in {{}, {"non_revoc_proof"}}}

SubProofMaps == UNION {[D -> SubProofItems] : D \in SUBSET {1}}

add_one_sub_proof_request ==
  /\ ~consumed
  /\ \E args \in SubProofAddArgs : AddCall(1, args)
  /\ UNCHANGED consumed

verify_one_sub_proof ==
  /\ ~consumed
  /\ \E proofs \in SubProofMaps, c_list \in CLists :
       \E c_hash \in CHashes(credentials, proofs, c_list, {}, {}) :
         VerifyCall(MakeProof(proofs, c_hash, c_list, {}), 1, {})
  /\ consumed' = TRUE
  /\ UNCHANGED <<credentials, reg_order>>

NextSubProof ==
  new_proof_verifier \/ add_one_sub_proof_request \/ verify_one_sub_proof

SpecSubProof == Init /\ [][NextSubProof]_vars

(***************************************************************************)
(* Vocabulary of the properties                                            *)
(***************************************************************************)
IsVerify == call.op = "verify"

IsAdd == call.op = "add_sub_proof_request"

Rejected(result) == result.tag = "Err" /\ result.err = "AnoncredsProofRejected"

InvalidStructure(result) == result.tag = "Err" /\ result.err = "InvalidStructure"

ReturnsBool(result) == result.tag = "Ok" /\ result.val \in BOOLEAN

(* The proof entry reveals exactly the requested attributes. *)
SameRevealedAttrs(credential, item) ==
  DOMAIN item.primary_proof.eq_proof.revealed_attrs
    = credential.sub_proof_request.revealed_attrs

(* The predicates carried by the entry's ge_proofs are the requested ones. *)
SamePredicates(credential, item) ==
  {item.primary_proof.ge_proofs[i].predicate :
     i \in 1..Len(item.primary_proof.ge_proofs)}
    = credential.sub_proof_request.predicates

(* Every registered credential has a proof entry that matches it. *)
StructureMatches(creds, proof) ==
  \A k \in DOMAIN creds :
    /\ k \in DOMAIN proof.proofs
    /\ SameRevealedAttrs(creds[k], proof.proofs[k])
    /\ SamePredicates(creds[k], proof.proofs[k])

(* C1: if the proof has an entry under a key_id that was never registered, *)
(* while every registered key has a matching entry, verify ends with an    *)
(* AnoncredsProofRejected error.                                           *)
C1_UnregisteredKeyRejected ==
  (/\ IsVerify
   /\ \E k \in DOMAIN call.proof.proofs : k \notin DOMAIN credentials
   /\ StructureMatches(credentials, call.proof))
    => Rejected(call.run.result)

C3_ExactCorrespondence ==
  IsVerify =>
    /\ call.run.result.tag = "Ok" => StructureMatches(credentials, call.proof)
    /\ (\E k \in DOMAIN credentials \cap DOMAIN call.proof.proofs :
          \/ ~SameRevealedAttrs(credentials[k], call.proof.proofs[k])
          \/ ~SamePredicates(credentials[k], call.proof.proofs[k]))
         => Rejected(call.run.result)

C3_Witness ==
  /\ IsVerify
  /\ DOMAIN credentials = DOMAIN call.proof.proofs
  /\ \E k \in DOMAIN credentials :
       /\ credentials[k].sub_proof_request.revealed_attrs = {"name"}
       /\ DOMAIN call.proof.proofs[k].primary_proof.eq_proof.revealed_attrs
            = {"name", "age"}
       /\ SamePredicates(credentials[k], call.proof.proofs[k])
  /\ Rejected(call.run.result)

(* The challenge verify recomputed differs from the one the proof claims. *)
ChallengeMismatch ==
  /\ call.run.pc = "challenge"
  /\ call.run.c_hver # {}
  /\ \A c \in call.run.c_hver : c # call.proof.aggregated_proof.c_hash

(* An authorization proof was demanded by a registered request and the     *)
(* proof carries none.                                                     *)
AuthzDemandedAndAbsent ==
  /\ \E k \in DOMAIN credentials :
       credentials[k].sub_proof_request.include_authz_proof
  /\ call.proof.authz_proof = {}

(* C4 as stated: verify returns Ok(false) only when all structural checks  *)
(* passed, c_hver was recomputed and c_hver differs from the claimed       *)
(* c_hash.                                                                 *)
C4_FalseOnlyOnChallengeMismatch ==
  (IsVerify /\ call.run.result = Ok(FALSE))
    => StructureMatches(credentials, call.proof) /\ ChallengeMismatch

(* C4 amended: verify returns Ok(false) only when all structural checks    *)
(* passed and either the recomputed challenge differs from the claimed one *)
(* or a demanded authorization proof is absent (no challenge is computed   *)
(* then).                                                                  *)
C4_FalseOnlyOnMismatchOrMissingAuthz ==
  (IsVerify /\ call.run.result = Ok(FALSE))
    => /\ StructureMatches(credentials, call.proof)
       /\ \/ ChallengeMismatch
          \/ AuthzDemandedAndAbsent /\ call.run.c_hver = {}

C4_Witness ==
  /\ IsVerify
  /\ call.run.result = Ok(FALSE)
  /\ ChallengeMismatch
  /\ DOMAIN credentials = {1, 2}

(* C5: when steps 1 and 2 of verify end without rejection, some registered *)
(* request has include_authz_proof and proof.authz_proof is absent, verify *)
(* returns Ok(false) and computes no challenge hash.                       *)
C5_MissingAuthzIsFalse ==
  (/\ IsVerify
   /\ call.run.pc \notin {"consistency", "recompute"}
   /\ AuthzDemandedAndAbsent)
    => /\ call.run.result = Ok(FALSE)
       /\ call.run.values = <<>>
       /\ call.run.c_hver = {}

C5_Witness ==
  /\ IsVerify
  /\ DOMAIN credentials = {1, 2}
  /\ credentials[1].sub_proof_request.include_authz_proof
  /\ ~credentials[2].sub_proof_request.include_authz_proof
  /\ call.proof.authz_proof = {}
  /\ call.run.result = Ok(FALSE)

(* The sequence C6 names: the recomputed commitments, then c_list, then    *)
(* the authorization commitment if the proof has one, then the nonce.      *)
ClaimedHashInput ==
  call.run.tau_list
    \o call.proof.aggregated_proof.c_list
    \o (IF call.proof.authz_proof = {} THEN <<>>
        ELSE <<Commitment("authz", 0, Unwrap(call.proof.authz_proof), 0,
                          <<Unwrap(call.accumulators)>>)>>)
    \o <<Bytes("nonce", to_bytes(call.nonce))>>

(* C6: when verify reaches the challenge step, the values it hashes are    *)
(* exactly ClaimedHashInput, and its result is true iff the hash of that   *)
(* sequence equals proof.aggregated_proof.c_hash.                          *)
C6_ChallengeInput ==
  (IsVerify /\ call.run.pc = "challenge")
    => /\ call.run.values = ClaimedHashInput
       /\ ReturnsBool(call.run.result)
       /\ call.run.result.val
            <=> ([sha256 |-> ClaimedHashInput] = call.proof.aggregated_proof.c_hash)

C6_Witness ==
  /\ IsVerify
  /\ call.run.pc = "challenge"
  /\ call.run.result = Ok(TRUE)
  /\ call.proof.authz_proof # {}
  /\ Len(call.run.tau_list) > 1
  /\ DOMAIN credentials = {1, 2}

(* The request names an attribute the schema lacks, revealed or in a       *)
(* predicate.                                                              *)
NamesOutsideSchema(args) ==
  \/ \E attr \in args.sub_proof_request.revealed_attrs :
       attr \notin args.credential_schema.attrs
  \/ \E predicate \in args.sub_proof_request.predicates :
       predicate.attr_name \notin args.credential_schema.attrs

(* C7: add_sub_proof_request returns InvalidStructure and leaves the       *)
(* credential map as it was whenever the request names an attribute that   *)
(* is not in credential_schema.attrs; otherwise the check does not reject. *)
C7_InvalidRequestStoresNothing ==
  [][call'.op = "add_sub_proof_request"
       => IF NamesOutsideSchema(call'.args)
          THEN InvalidStructure(call'.result) /\ credentials' = credentials
          ELSE call'.result.tag = "Ok"]_vars

C7_Witness ==
  /\ IsAdd
  /\ InvalidStructure(call.result)
  /\ \E predicate \in call.args.sub_proof_request.predicates :
       predicate.attr_name = "sex"
  /\ call.key_id \in DOMAIN credentials

(* C8: a successful add_sub_proof_request(key_id, ...) leaves exactly the  *)
(* arguments of this call under key_id, also when key_id was registered    *)
(* before, and leaves the entries under all other keys as they were.       *)
C8_InsertReplacesOnlyKey ==
  [][(call'.op = "add_sub_proof_request" /\ call'.result.tag = "Ok")
       => /\ DOMAIN credentials' = DOMAIN credentials \cup {call'.key_id}
          /\ credentials'[call'.key_id].sub_proof_request
               = call'.args.sub_proof_request
          /\ credentials'[call'.key_id].credential_schema
               = call'.args.credential_schema
          /\ credentials'[call'.key_id].non_credential_schema_elements
               = call'.args.non_credential_schema_elements
          /\ credentials'[call'.key_id].pub_key = call'.args.credential_pub_key
          /\ credentials'[call'.key_id].rev_key_pub = call'.args.rev_key_pub
          /\ credentials'[call'.key_id].rev_reg = call'.args.rev_reg
          /\ \A k \in DOMAIN credentials :
               k # call'.key_id => credentials'[k] = credentials[k]]_vars

C8_Witness ==
  /\ IsAdd
  /\ call.result.tag = "Ok"
  /\ DOMAIN credentials = {1, 2}
  /\ reg_order = <<1, 2>>
  /\ call.key_id = 1
  /\ credentials[1] # credentials[2]

(* C9: if verify returned true for a nonce, verify of the same proof with  *)
(* the same registered credentials and any nonce whose serialization       *)
(* differs returns Ok(false).                                              *)
C9_NonceBinding ==
  (IsVerify /\ call.run.result = Ok(TRUE))
    => \A nonce2 \in Nonces :
         to_bytes(nonce2) # to_bytes(call.nonce)
           => VerifyRun(credentials, call.proof, nonce2, call.accumulators).result
                = Ok(FALSE)

C9_Witness ==
  /\ IsVerify
  /\ call.run.result = Ok(TRUE)
  /\ DOMAIN credentials # {}
  /\ \E nonce2 \in Nonces : to_bytes(nonce2) # to_bytes(call.nonce)

(* The commitments verify recomputes for the credential under key k. *)
Block(k) ==
  LoopBody(credentials[k], call.proof.proofs[k],
           call.proof.aggregated_proof.c_hash).val

RECURSIVE ConcatBlocks(_)
ConcatBlocks(keys) ==
  IF keys = <<>> THEN <<>> ELSE Block(Head(keys)) \o ConcatBlocks(Tail(keys))

(* Non-revocation commitments (eight or none), then the equality           *)
(* commitment, then predicate commitments.                                 *)
BlockWellOrdered(b) ==
  \E m \in {0, 8} :
    /\ Len(b) > m
    /\ \A i \in 1..m : b[i].kind = "t_nr"
    /\ b[m + 1].kind = "t_eq"
    /\ \A i \in (m + 2)..Len(b) : b[i].kind = "tau_ge"

(* C10 as stated: the credentials' blocks appear in the hashed commitment  *)
(* list in the order of the add_sub_proof_request calls.                   *)
C10_RegistrationOrder ==
  (IsVerify /\ call.run.pc = "challenge")
    => call.run.tau_list = ConcatBlocks(reg_order)

(* C10 amended: the blocks appear in ascending key_id order of the proof's *)
(* entries, whatever the order of registration; inside a block the         *)
(* non-revocation commitments come first, then the equality commitment,    *)
(* then the predicate commitments.                                         *)
C10_KeyOrder ==
  (IsVerify /\ call.run.pc = "challenge")
    => /\ call.run.tau_list
            = ConcatBlocks(SetToSortedSeq(DOMAIN call.proof.proofs))
       /\ \A k \in DOMAIN call.proof.proofs : BlockWellOrdered(Block(k))
       /\ \E i \in 1..(Len(call.run.values) + 1) :
            SubSeq(call.run.values, 1, i - 1) = call.run.tau_list

C10_Witness ==
  /\ IsVerify
  /\ call.run.pc = "challenge"
  /\ reg_order = <<2, 1>>
  /\ Len(Block(1)) > 8 + 1
  /\ Block(1)[1].kind = "t_nr"
  /\ Block(1) # Block(2)

(***************************************************************************)
(* The commitments of one credential.  In a run over a single registered   *)
(* key whose recomputation loop ran to its end, tau_list is exactly what   *)
(* that credential contributed.                                            *)
(***************************************************************************)
LoopCompleted == IsVerify /\ call.run.pc \notin {"consistency", "recompute"}

SoleCredential(k) ==
  /\ LoopCompleted
  /\ DOMAIN credentials = {k}
  /\ DOMAIN call.proof.proofs = {k}

RevocationPart(tau_list) ==
  LET IsRevocation(c) == c.kind = "t_nr" IN SelectSeq(tau_list, IsRevocation)

PrimaryPart(tau_list) ==
  LET IsPrimary(c) == c.kind # "t_nr" IN SelectSeq(tau_list, IsPrimary)

GeBlock(primary, j) == SubSeq(primary, 2 + (j - 1) * (ITERATION + 2), 1 + j * (ITERATION + 2))

Threshold(block) == block[ITERATION + 1].public

StoredPredicateValues(credential) ==
  SetToSortedSeq({p.value : p \in credential.sub_proof_request.predicates})

GeProofsOf(k) == call.proof.proofs[k].primary_proof.ge_proofs

C12_ThresholdNotFromTranscript ==
  \A k \in KeyIds :
    SoleCredential(k) =>
      \A j \in 1..Len(GeProofsOf(k)) :
        LET ge_proof == GeProofsOf(k)[j]
            other == [ge_proof EXCEPT !.predicate.value = @ + 1]
            p_pub_key == credentials[k].pub_key.p_key
            c_hash == call.proof.aggregated_proof.c_hash
        IN verify_ge_predicate(p_pub_key, other, c_hash)
             = verify_ge_predicate(p_pub_key, ge_proof, c_hash)

(* C12 amended: the threshold folded into slot ITERATION is the value of   *)
(* the predicate the GE transcript carries; in every verify run it equals  *)
(* the value of a predicate stored at registration, and no other slot      *)
(* carries a threshold.                                                    *)
C12_ThresholdIsRegisteredValue ==
  \A k \in KeyIds :
    SoleCredential(k) =>
      /\ \A i \in 1..Len(call.run.tau_list) :
           LET c == call.run.tau_list[i]
           IN c.kind = "tau_ge" =>
                IF c.slot = ITERATION
                THEN \E p \in credentials[k].sub_proof_request.predicates :
                       c.public = <<p.value>>
                ELSE c.public = <<>>
      /\ \A j \in 1..Len(GeProofsOf(k)) :
           Threshold(GeBlock(PrimaryPart(call.run.tau_list), j))
             = <<GeProofsOf(k)[j].predicate.value>>

(* Both registered thresholds were folded into a completed run. *)
C12_Witness ==
  /\ SoleCredential(1)
  /\ {p.value : p \in credentials[1].sub_proof_request.predicates} = {18, 21}
  /\ \A v \in {18, 21} :
       \E i \in 1..Len(call.run.tau_list) :
         /\ call.run.tau_list[i].slot = ITERATION
         /\ call.run.tau_list[i].public = <<v>>

AllTKeysPresent(item) ==
  \A j \in 1..Len(item.primary_proof.ge_proofs) :
    TKeys \subseteq item.primary_proof.ge_proofs[j].t

(* C13 as stated: the 8 non-revocation commitments are appended exactly    *)
(* when the credential has a revocation registry and a revocation public   *)
(* key and the proof entry carries a non-revocation transcript.            *)
C13_RevocationIffRegistryKeyTranscript ==
  \A k \in KeyIds :
    SoleCredential(k) =>
      (Len(RevocationPart(call.run.tau_list)) = 8
         <=> /\ credentials[k].rev_reg # {}
             /\ credentials[k].rev_key_pub # {}
             /\ call.proof.proofs[k].non_revoc_proof # {})

(* C13 amended: the 8 non-revocation commitments are appended, before the  *)
(* primary ones, exactly when the credential public key has a revocation   *)
(* part, a registry and a revocation public key are configured and the     *)
(* proof entry carries a transcript; otherwise none is appended and verify *)
(* goes on without an error.                                               *)
C13_RevocationIffAllFourPresent ==
  \A k \in KeyIds :
    /\ SoleCredential(k) =>
         LET revocation == RevocationPart(call.run.tau_list)
         IN /\ Len(revocation) = 8
                 <=> /\ credentials[k].pub_key.r_key # {}
                     /\ credentials[k].rev_reg # {}
                     /\ credentials[k].rev_key_pub # {}
                     /\ call.proof.proofs[k].non_revoc_proof # {}
            /\ Len(revocation) \in {0, 8}
            /\ call.run.tau_list = revocation \o PrimaryPart(call.run.tau_list)
    /\ (/\ IsVerify
        /\ DOMAIN credentials = {k}
        /\ DOMAIN call.proof.proofs = {k}
        /\ StructureMatches(credentials, call.proof)
        /\ AllTKeysPresent(call.proof.proofs[k]))
         => call.run.result.tag = "Ok"

(* A transcript was submitted for a credential with registry and key but   *)
(* no revocation part in its public key; verify completed without them.    *)
C13_Witness ==
  /\ SoleCredential(1)
  /\ credentials[1].pub_key.r_key = {}
  /\ credentials[1].rev_reg # {}
  /\ credentials[1].rev_key_pub # {}
  /\ call.proof.proofs[1].non_revoc_proof # {}
  /\ RevocationPart(call.run.tau_list) = <<>>
  /\ call.run.result.tag = "Ok"

C15_VerifyNeverPanics ==
  IsVerify => /\ call.run.result.tag \in {"Ok", "Err"}
              /\ call.run.result.tag = "Ok" => call.run.result.val \in BOOLEAN

====
